---- MODULE Spec2Model ----
(***************************************************************************)
(* A model of codememo's reference graph (codememo/objects.py): Node,      *)
(* NodeCollection, their mutation operations, the forest decomposition     *)
(* resolve_tree and the document round trip to_dict / from_dict.           *)
(*                                                                         *)
(* Node objects are the integers 1..NumNodes; node n has uuid n.  Python   *)
(* lists are sequences, list positions are reported 0-based as in Python.  *)
(* Every operation is an operator from a graph value                       *)
(*   [nodes, roots, leaves, ref_infos]                                     *)
(* to a result [st, err]: the graph as the call leaves it and the          *)
(* exception it raises ("ok" when it returns).                             *)
(***************************************************************************)
EXTENDS Integers, Sequences, FiniteSets, TLC

\* ------------------------------------------------------------------ bounds
NumNodes == 3
MaxSteps == 3
MaxLines == 2
MaxRefSteps == 2
NumShortcuts == 3
NumKeys == 2

\* Python's None for an optional integer argument.
None == -1000

Node == 1..NumNodes

\* Snippet.n_lines of node n's snippet: snippets of 1..MaxLines lines.
n_lines(n) == ((n - 1) % MaxLines) + 1

\* Arguments <<ref_start, ref_stop>> the callers pass: the defaults of add_leaf,
\* the defaults of add_leaf_reference, and lines below and above every snippet.
RefArgs == {<<1, None>>, <<None, None>>, <<0, None>>, <<MaxLines + 1, None>>,
            <<1, MaxLines + 1>>}

\* Every ref_start from below the first line to above the longest snippet, with
\* ref_stop unset, 0, the last line of the longest snippet and the line above it.
RefArgsWide == (0..(MaxLines + 1)) \X {None, 0, MaxLines, MaxLines + 1}

VARIABLES
    nodes,              \* NodeCollection.nodes: the ordered list of members
    roots,              \* Node.roots of every node object
    leaves,             \* Node.leaves of every node object
    ref_infos,          \* Node.ref_infos of every node object (root uuid -> ReferenceInfo)
    last,               \* the last call: [op, a, b, err]
    steps,              \* number of calls made so far
    pc,                 \* resolve_tree: "idle", "loop" (inside the while loop), "done"
    visited,            \* resolve_tree: visited
    trees,              \* resolve_tree: trees (nested lists built by build_tree)
    orphan_nodes,       \* resolve_tree: orphan_nodes
    layer_collection,   \* resolve_tree: the returned layer_collection
    query,              \* the last link query: [op, links, err]
    loaded,             \* the last NodeCollection.load: [op, file, st, err]
    returned,           \* the set of nodes the last call returned
    shortcuts,          \* the ShortcutRegistry with the keys its io reports down
    hold                \* the frame's position, and per shortcut whether it has
                        \* been triggered while its keys have stayed down

graph == <<nodes, roots, leaves, ref_infos>>
resolve_vars == <<pc, visited, trees, orphan_nodes, layer_collection>>
vars == <<nodes, roots, leaves, ref_infos, last, steps, pc, visited, trees,
          orphan_nodes, layer_collection, query, loaded, returned, shortcuts, hold>>

\* What the operations on the graph and the link queries leave alone.
outside == <<loaded, returned, shortcuts, hold>>

\* The graph as one value.
St == [nodes |-> nodes, roots |-> roots, leaves |-> leaves, ref_infos |-> ref_infos]

\* ------------------------------------------------------- Python list / dict
\* list.index(x), 0-based; -1 stands for the ValueError of a missing element.
ListIndex(s, x) ==
    IF \E i \in 1..Len(s) : s[i] = x
    THEN (CHOOSE i \in 1..Len(s) : s[i] = x /\ \A j \in 1..(i - 1) : s[j] # x) - 1
    ELSE -1

\* list.pop(idx) for a 0-based idx: the list that remains.
ListPop(s, idx) == SubSeq(s, 1, idx) \o SubSeq(s, idx + 2, Len(s))

\* x in list
InList(s, x) == \E i \in 1..Len(s) : s[i] = x

\* The elements of a list, as a set.
Elems(s) == {s[i] : i \in 1..Len(s)}

\* d[k] = v
DictSet(d, k, v) == [x \in (DOMAIN d) \cup {k} |-> IF x = k THEN v ELSE d[x]]

\* d.pop(k): the dict that remains
DictPop(d, k) == [x \in (DOMAIN d) \ {k} |-> d[x]]

EmptyDict == [x \in {} |-> 0]

\* ------------------------------------------------------------- results
Ok(st) == [st |-> st, err |-> "ok"]
Raise(st, e) == [st |-> st, err |-> e]

\* ReferenceInfo(ref_start, ref_stop)
ReferenceInfo(ref_start, ref_stop) == [ref_start |-> ref_start, ref_stop |-> ref_stop]

\* Python truthiness of an optional integer.
Truthy(v) == v # None /\ v # 0

\* ------------------------------------------------------------------- Node
\* set_root without its duplicate check.
set_root_unchecked(st, self, node, ref_start, ref_stop) ==
    Ok([st EXCEPT
         !.roots[self] = Append(@, node),
         !.ref_infos[self] = DictSet(@, node, ReferenceInfo(ref_start, ref_stop))])

\* set_root that registers the new root before the roots it already has.
set_root_prepends(st, self, node, ref_start, ref_stop) ==
    IF InList(st.roots[self], node)
    THEN Raise(st, "NodeReferenceException")
    ELSE Ok([st EXCEPT
              !.roots[self] = <<node>> \o @,
              !.ref_infos[self] = DictSet(@, node, ReferenceInfo(ref_start, ref_stop))])

\* self.set_root(node, ref_start, ref_stop): self is the leaf, node its new root.
set_root(st, self, node, ref_start, ref_stop) ==
    IF InList(st.roots[self], node)
    THEN Raise(st, "NodeReferenceException")
    ELSE Ok([st EXCEPT
              !.roots[self] = Append(@, node),
              !.ref_infos[self] = DictSet(@, node, ReferenceInfo(ref_start, ref_stop))])

\* reset_root that pops the first root, whichever node is named.
reset_root_pops_first(st, self, node) ==
    LET idx == ListIndex(st.roots[self], node) IN
    IF idx = -1
    THEN Raise(st, "ValueError")
    ELSE LET popped == st.roots[self][1]
             st1 == [st EXCEPT !.roots[self] = ListPop(@, 0)]
         IN  Ok([st1 EXCEPT !.ref_infos[self] = DictPop(@, popped)])

\* reset_root that keeps the ReferenceInfo of the popped root.
reset_root_keeps_info(st, self, node) ==
    LET idx == ListIndex(st.roots[self], node) IN
    IF idx = -1
    THEN Raise(st, "ValueError")
    ELSE Ok([st EXCEPT !.roots[self] = ListPop(@, idx)])

\* self.reset_root(node): roots.index raises ValueError before any change;
\* ref_infos.pop raises KeyError after the root was popped.
reset_root(st, self, node) ==
    LET idx == ListIndex(st.roots[self], node) IN
    IF idx = -1
    THEN Raise(st, "ValueError")
    ELSE LET st1 == [st EXCEPT !.roots[self] = ListPop(@, idx)] IN
         IF node \notin DOMAIN st1.ref_infos[self]
         THEN Raise(st1, "KeyError")
         ELSE Ok([st1 EXCEPT !.ref_infos[self] = DictPop(@, node)])

\* add_leaf that validates the reference against the snippet of the leaf.
add_leaf_checks_leaf(st, self, node, ref_start, ref_stop) ==
    IF ref_start = None
    THEN Raise(st, "TypeError")
    ELSE IF ref_start < 1 \/ ref_start > n_lines(node)
    THEN Raise(st, "ValueError")
    ELSE IF Truthy(ref_stop) /\ ref_stop > n_lines(node)
    THEN Raise(st, "ValueError")
    ELSE LET r == set_root(st, node, self, ref_start, ref_stop) IN
         IF r.err # "ok"
         THEN r
         ELSE Ok([r.st EXCEPT !.leaves[self] = Append(@, node)])

\* add_leaf without the upper limit on ref_start.
add_leaf_no_upper_limit(st, self, node, ref_start, ref_stop) ==
    IF ref_start = None
    THEN Raise(st, "TypeError")
    ELSE IF ref_start < 1
    THEN Raise(st, "ValueError")
    ELSE IF Truthy(ref_stop) /\ ref_stop > n_lines(self)
    THEN Raise(st, "ValueError")
    ELSE LET r == set_root(st, node, self, ref_start, ref_stop) IN
         IF r.err # "ok"
         THEN r
         ELSE Ok([r.st EXCEPT !.leaves[self] = Append(@, node)])

\* add_leaf that appends the leaf before it registers the root.
add_leaf_appends_first(st, self, node, ref_start, ref_stop) ==
    IF ref_start = None
    THEN Raise(st, "TypeError")
    ELSE IF ref_start < 1 \/ ref_start > n_lines(self)
    THEN Raise(st, "ValueError")
    ELSE IF Truthy(ref_stop) /\ ref_stop > n_lines(self)
    THEN Raise(st, "ValueError")
    ELSE set_root([st EXCEPT !.leaves[self] = Append(@, node)], node, self,
                  ref_start, ref_stop)

\* self.add_leaf(node, ref_start, ref_stop)
add_leaf(st, self, node, ref_start, ref_stop) ==
    IF ref_start = None
    THEN Raise(st, "TypeError")
    ELSE IF ref_start < 1 \/ ref_start > n_lines(self)
    THEN Raise(st, "ValueError")
    ELSE IF Truthy(ref_stop) /\ ref_stop > n_lines(self)
    THEN Raise(st, "ValueError")
    ELSE LET r == set_root(st, node, self, ref_start, ref_stop) IN
         IF r.err # "ok"
         THEN r
         ELSE Ok([r.st EXCEPT !.leaves[self] = Append(@, node)])

\* remove_leaf_by_index that leaves the root registered in the popped leaf.
remove_leaf_by_index_no_reset(st, self, idx) ==
    Ok([st EXCEPT !.leaves[self] = ListPop(@, idx)])

\* self.remove_leaf_by_index(idx)
remove_leaf_by_index(st, self, idx) ==
    LET node == st.leaves[self][idx + 1]
        st1 == [st EXCEPT !.leaves[self] = ListPop(@, idx)]
    IN  reset_root(st1, node, self)

\* remove_leaf that removes the first leaf, whichever node is named.
remove_leaf_pops_first(st, self, node) ==
    LET idx == ListIndex(st.leaves[self], node) IN
    IF idx = -1
    THEN Raise(st, "ValueError")
    ELSE remove_leaf_by_index(st, self, 0)

\* self.remove_leaf(node)
remove_leaf(st, self, node) ==
    LET idx == ListIndex(st.leaves[self], node) IN
    IF idx = -1
    THEN Raise(st, "ValueError")
    ELSE remove_leaf_by_index(st, self, idx)

\* remove_leaf for every node of the list todo, in its order.
RECURSIVE remove_leaves(_, _, _)
remove_leaves(st, self, todo) ==
    IF Len(todo) = 0
    THEN Ok(st)
    ELSE LET r == remove_leaf(st, self, Head(todo)) IN
         IF r.err # "ok" THEN r ELSE remove_leaves(r.st, self, Tail(todo))

\* self.remove_all_leaves(): every current leaf is removed by remove_leaf.
remove_all_leaves(st, self) == remove_leaves(st, self, st.leaves[self])

\* --------------------------------------------------------- NodeCollection
\* NodeCollection.index(node): -1 when node is not a member.
index(st, node) == ListIndex(st.nodes, node)

\* NodeCollection.add_leaf_reference(root, target, ref_start, ref_stop)
add_leaf_reference(st, root, target, ref_start, ref_stop) ==
    LET idx_root == ListIndex(st.nodes, root) IN
    IF idx_root = -1
    THEN Raise(st, "ValueError")
    ELSE LET r == add_leaf(st, st.nodes[idx_root + 1], target, ref_start, ref_stop) IN
         IF r.err = "ValueError"
         THEN Raise(r.st, "NodeReferenceException")
         ELSE r

\* The loop `for root in target.roots: root.remove_leaf(target)` of remove_node:
\* the list iterator is at position i of target.roots, which remove_leaf shortens.
RECURSIVE remove_node_loop(_, _, _)
remove_node_loop(st, target, i) ==
    IF i >= Len(st.roots[target])
    THEN Ok(st)
    ELSE LET r == remove_leaf(st, st.roots[target][i + 1], target) IN
         IF r.err # "ok"
         THEN r
         ELSE remove_node_loop(r.st, target, i + 1)

\* remove_node without the gate on remaining leaves.
remove_node_ungated(st, target) ==
    LET target_index == index(st, target) IN
    IF target_index = -1
    THEN Raise(st, "NodeRemovalException")
    ELSE remove_node_loop([st EXCEPT !.nodes = ListPop(@, target_index)], target, 0)

\* NodeCollection.remove_node(target)
remove_node(st, target) ==
    LET target_index == index(st, target) IN
    IF target_index = -1
    THEN Raise(st, "NodeRemovalException")
    ELSE IF Len(st.leaves[target]) # 0
    THEN Raise(st, "NodeRemovalException")
    ELSE remove_node_loop([st EXCEPT !.nodes = ListPop(@, target_index)], target, 0)

\* remove_root_reference without the check that root is a root of target.
remove_root_reference_unchecked(st, target, root) ==
    IF Len(st.roots[target]) = 0
    THEN Raise(st, "NodeRemovalException")
    ELSE remove_leaf(st, root, target)

\* NodeCollection.remove_root_reference(target, root)
remove_root_reference(st, target, root) ==
    IF Len(st.roots[target]) = 0
    THEN Raise(st, "NodeRemovalException")
    ELSE IF ~InList(st.roots[target], root)
    THEN Raise(st, "NodeRemovalException")
    ELSE remove_leaf(st, root, target)

\* The traversal of remove_node_and_its_leaves: node and, through leaves,
\* every node reached from it that is not in seen; collect_leaves is its loop
\* over node.leaves at position i.
RECURSIVE collect(_, _, _), collect_leaves(_, _, _, _)
collect(st, node, seen) ==
    IF node \in seen
    THEN seen
    ELSE collect_leaves(st, node, 1, seen \cup {node})

collect_leaves(st, node, i, seen) ==
    IF i > Len(st.leaves[node])
    THEN seen
    ELSE collect_leaves(st, node, i + 1, collect(st, st.leaves[node][i], seen))

\* node is detached from every root.
RECURSIVE remove_from_roots(_, _, _)
remove_from_roots(st, node, todo) ==
    IF Len(todo) = 0
    THEN Ok(st)
    ELSE LET r == remove_leaf(st, Head(todo), node) IN
         IF r.err # "ok" THEN r ELSE remove_from_roots(r.st, node, Tail(todo))

\* Every node of the list todo is detached from its leaves and its roots and
\* taken from the node list.
RECURSIVE detach_and_remove(_, _)
detach_and_remove(st, todo) ==
    IF Len(todo) = 0
    THEN Ok(st)
    ELSE LET node == Head(todo)
             r1 == remove_all_leaves(st, node)
             r2 == remove_from_roots(r1.st, node, r1.st.roots[node])
             idx == index(r2.st, node)
         IN  IF r1.err # "ok" THEN r1
             ELSE IF r2.err # "ok" THEN r2
             ELSE detach_and_remove(
                      IF idx = -1 THEN r2.st ELSE [r2.st EXCEPT !.nodes = ListPop(@, idx)],
                      Tail(todo))

\* NodeCollection.remove_node_and_its_leaves(target): target and the nodes it
\* reaches through leaves are detached and removed; the set of them is returned.
remove_node_and_its_leaves(st, target) ==
    IF index(st, target) = -1
    THEN Raise(st, "NodeRemovalException")
    ELSE LET removed == collect(st, target, {})
             r == detach_and_remove(st, SelectSeq([n \in 1..NumNodes |-> n],
                                                  LAMBDA n : n \in removed))
         IN  [st |-> r.st, err |-> r.err, ret |-> IF r.err = "ok" THEN removed ELSE {}]

\* ------------------------------------------------------------------ links
\* NodeLink(root, root_slot, leaf, leaf_slot)
NodeLink(root, root_slot, leaf, leaf_slot) ==
    [root |-> root, root_slot |-> root_slot, leaf |-> leaf, leaf_slot |-> leaf_slot]

\* NodeIndexLink(root_idx, root_slot, leaf_idx, leaf_slot)
NodeIndexLink(root_idx, root_slot, leaf_idx, leaf_slot) ==
    [root_idx |-> root_idx, root_slot |-> root_slot,
     leaf_idx |-> leaf_idx, leaf_slot |-> leaf_slot]

\* The result of a link query: the list it returns or the exception it raises.
Links(links) == [links |-> links, err |-> "ok"]
LinksRaise(e) == [links |-> <<>>, err |-> e]

\* links_of_node that reports root_slot 0 for every link.
links_of_node_slot_zero(st, node, i, links) ==
    Links(links \o [k \in 1..Len(st.leaves[node]) |->
                       NodeLink(node, 0, st.leaves[node][k], k - 1)])

\* The loop `for i, leaf in enumerate(node.leaves)` shared by resolve_links and
\* resolve_links_from_trees, at position i (0-based): the links list it leaves.
RECURSIVE links_of_node(_, _, _, _)
links_of_node(st, node, i, links) ==
    IF i >= Len(st.leaves[node])
    THEN Links(links)
    ELSE LET leaf == st.leaves[node][i + 1]
             root_slot == ListIndex(st.roots[leaf], node)
         IN  IF root_slot = -1
             THEN LinksRaise("ValueError")
             ELSE links_of_node(st, node, i + 1,
                      Append(links, NodeLink(node, root_slot, leaf, i)))

\* The loop `for node in ...` over a list of nodes, at position k (1-based).
RECURSIVE links_of_nodes(_, _, _, _)
links_of_nodes(st, list, k, links) ==
    IF k > Len(list)
    THEN Links(links)
    ELSE LET r == links_of_node(st, list[k], 0, links) IN
         IF r.err # "ok" THEN r ELSE links_of_nodes(st, list, k + 1, r.links)

\* NodeCollection.resolve_links()
resolve_links(st) == links_of_nodes(st, st.nodes, 1, <<>>)

\* [v for layer in tree for v in layer]
RECURSIVE FlattenLayers(_)
FlattenLayers(tree) ==
    IF Len(tree) = 0 THEN <<>> ELSE Head(tree) \o FlattenLayers(Tail(tree))

\* The loop `for n, tree in enumerate(trees)` of resolve_links_from_trees, at
\* tree n (1-based).
RECURSIVE links_from_trees_loop(_, _, _, _)
links_from_trees_loop(st, trs, n, links) ==
    IF n > Len(trs)
    THEN Links(links)
    ELSE LET flattened_tree == FlattenLayers(trs[n])
             r == links_of_nodes(st, flattened_tree, 1, links)
         IN  IF r.err # "ok" THEN r ELSE links_from_trees_loop(st, trs, n + 1, r.links)

\* resolve_links_from_trees that reads the first tree only.
resolve_links_from_first_tree(st, trs) ==
    IF Len(trs) = 0
    THEN Links(<<>>)
    ELSE links_of_nodes(st, FlattenLayers(trs[1]), 1, <<>>)

\* NodeCollection.resolve_links_from_trees(trees)
resolve_links_from_trees(st, trs) == links_from_trees_loop(st, trs, 1, <<>>)

\* The loop `for i, leaf in enumerate(node.leaves)` of
\* resolve_index_links_from_trees, at position i (0-based).
RECURSIVE index_links_of_node(_, _, _, _, _, _, _)
index_links_of_node(st, flattened_tree, idx_root, node, prev_tree_size, i, links) ==
    IF i >= Len(st.leaves[node])
    THEN Links(links)
    ELSE LET leaf == st.leaves[node][i + 1]
             idx_leaf == ListIndex(flattened_tree, leaf)
         IN  IF idx_leaf = -1
             THEN LinksRaise("ValueError")
             ELSE index_links_of_node(st, flattened_tree, idx_root, node,
                      prev_tree_size, i + 1,
                      Append(links, NodeIndexLink(idx_root + prev_tree_size, 0,
                                                  idx_leaf + prev_tree_size, i)))

\* The loop `for idx_root, node in enumerate(flattened_tree)`, at idx_root.
RECURSIVE index_links_of_tree(_, _, _, _, _)
index_links_of_tree(st, flattened_tree, idx_root, prev_tree_size, links) ==
    IF idx_root >= Len(flattened_tree)
    THEN Links(links)
    ELSE LET r == index_links_of_node(st, flattened_tree, idx_root,
                      flattened_tree[idx_root + 1], prev_tree_size, 0, links)
         IN  IF r.err # "ok"
             THEN r
             ELSE index_links_of_tree(st, flattened_tree, idx_root + 1,
                                      prev_tree_size, r.links)

\* The loop `for n, tree in enumerate(trees)`, at tree n (1-based);
\* prev_tree_size is set to the size of the tree just read.
RECURSIVE index_links_from_trees_loop(_, _, _, _, _)
index_links_from_trees_loop(st, trs, n, prev_tree_size, links) ==
    IF n > Len(trs)
    THEN Links(links)
    ELSE LET flattened_tree == FlattenLayers(trs[n])
             r == index_links_of_tree(st, flattened_tree, 0, prev_tree_size, links)
         IN  IF r.err # "ok"
             THEN r
             ELSE index_links_from_trees_loop(st, trs, n + 1, Len(flattened_tree),
                                              r.links)

\* NodeCollection.resolve_index_links_from_trees(trees)
resolve_index_links_from_trees(st, trs) ==
    index_links_from_trees_loop(st, trs, 1, 0, <<>>)

\* ----------------------------------------------------------- resolve_tree
\* The nested lists of build_tree: an element is a node or a list of elements.
Elem(n) == [isList |-> FALSE, node |-> n, items |-> <<>>]
List(items) == [isList |-> TRUE, node |-> 0, items |-> items]

\* [v for sub in subtrees for v in sub]
RECURSIVE Flatten(_)
Flatten(subtrees) ==
    IF Len(subtrees) = 0 THEN <<>> ELSE Head(subtrees) \o Flatten(Tail(subtrees))

\* build_tree(node, tree, visited): the tree and the shared visited set it leaves.
\* build_subtrees is its loop `for leaf in node.leaves`, at position i.
RECURSIVE build_tree(_, _, _, _), build_subtrees(_, _, _, _, _)
build_tree(st, node, tree, vis) ==
    IF node \in vis
    THEN [tree |-> tree, visited |-> vis]
    ELSE LET vis1 == vis \cup {node}
             tree1 == Append(tree, Elem(node))
         IN  IF Len(st.leaves[node]) = 0
             THEN [tree |-> tree1, visited |-> vis1]
             ELSE LET sub == build_subtrees(st, node, 1, <<>>, vis1) IN
                  IF Len(sub.subtrees) = 0
                  THEN [tree |-> tree1, visited |-> sub.visited]
                  ELSE [tree |-> Append(tree1, List(Flatten(sub.subtrees))),
                        visited |-> sub.visited]

build_subtrees(st, node, i, subtrees, vis) ==
    IF i > Len(st.leaves[node])
    THEN [subtrees |-> subtrees, visited |-> vis]
    ELSE LET leaf == st.leaves[node][i] IN
         IF leaf = node
         THEN build_subtrees(st, node, i + 1, Append(subtrees, <<>>), vis)
         ELSE LET r == build_tree(st, leaf, <<>>, vis) IN
              build_subtrees(st, node, i + 1, Append(subtrees, r.tree), r.visited)

\* build_layers(tree, layers, idx_current_layer); build_layers_loop is its loop
\* `for i, element in enumerate(tree)`, at position i.
RECURSIVE build_layers(_, _, _), build_layers_loop(_, _, _, _)
build_layers(tree, layers, idx_current_layer) ==
    build_layers_loop(tree, 1,
        IF Len(layers) < idx_current_layer + 1 THEN Append(layers, <<>>) ELSE layers,
        idx_current_layer)

build_layers_loop(tree, i, layers, idx_current_layer) ==
    IF i > Len(tree)
    THEN layers
    ELSE LET element == tree[i] IN
         IF element.isList
         THEN build_layers_loop(tree, i + 1,
                  build_layers(element.items, layers, idx_current_layer + 1),
                  idx_current_layer)
         ELSE build_layers_loop(tree, i + 1,
                  [layers EXCEPT ![idx_current_layer + 1] = Append(@, element.node)],
                  idx_current_layer)

\* set(nodes).difference(visited)
Remainings(st, vis) == Elems(st.nodes) \ vis

\* The orders in which iterating a Python set can yield its elements: Node does
\* not define __hash__, so the order follows the objects' addresses.
SetOrders(S) ==
    {o \in [1..Cardinality(S) -> S] : \A i, j \in 1..Cardinality(S) : o[i] = o[j] => i = j}

\* find_roots_and_orphans that takes every node without roots for an orphan.
find_roots_and_orphans_rootless(st, vis, order) ==
    LET IsOrphan(n) == Len(st.roots[n]) = 0
        IsRoot(n) == Len(st.roots[n]) = 0 /\ Len(st.leaves[n]) # 0
        orphans == SelectSeq(order, IsOrphan)
        found == SelectSeq(order, IsRoot)
        others == SelectSeq(order, LAMBDA n : ~InList(orphans, n))
    IN  [roots |-> IF Len(found) = 0 /\ Len(order) # 0 /\ Len(others) # 0
                   THEN <<others[1]>>
                   ELSE found,
         orphans |-> orphans]

\* find_roots_and_orphans that picks a root among the remaining nodes even
\* when nodes without roots were found.
find_roots_and_orphans_picks(st, vis, order) ==
    LET IsOrphan(n) == Len(st.roots[n]) = 0 /\ Len(st.leaves[n]) = 0
        orphans == SelectSeq(order, IsOrphan)
        others == SelectSeq(order, LAMBDA n : ~InList(orphans, n))
    IN  [roots |-> IF Len(others) # 0 THEN <<others[1]>> ELSE <<>>,
         orphans |-> orphans]

\* find_roots_and_orphans(nodes, visited), with `order` the iteration order of
\* the set remainings.
find_roots_and_orphans(st, vis, order) ==
    LET IsOrphan(n) == Len(st.roots[n]) = 0 /\ Len(st.leaves[n]) = 0
        IsRoot(n) == Len(st.roots[n]) = 0 /\ Len(st.leaves[n]) # 0
        orphans == SelectSeq(order, IsOrphan)
        found == SelectSeq(order, IsRoot)
        others == SelectSeq(order, LAMBDA n : ~InList(orphans, n))
    IN  [roots |-> IF Len(found) = 0 /\ Len(order) # 0 /\ Len(others) # 0
                   THEN <<others[1]>>
                   ELSE found,
         orphans |-> orphans]

\* The loop `for root in roots: trees.append(build_tree(root, [], visited))`.
RECURSIVE build_trees(_, _, _, _)
build_trees(st, rts, rt, i) ==
    IF i > Len(rts)
    THEN rt
    ELSE LET r == build_tree(st, rts[i], <<>>, rt.visited) IN
         build_trees(st, rts,
             [rt EXCEPT !.trees = Append(@, r.tree), !.visited = r.visited], i + 1)

\* One iteration of `while len(visited) != len(self.nodes)` on the locals
\* rt = [visited, trees, orphan_nodes].
resolve_iteration(st, rt, order) ==
    LET fr == find_roots_and_orphans(st, rt.visited, order)
        rt1 == [rt EXCEPT !.visited = @ \cup Elems(fr.orphans),
                          !.orphan_nodes = @ \o fr.orphans]
    IN  build_trees(st, fr.roots, rt1, 1)

\* layer_collection that keeps the first layer of every tree only.
layers_of_first_layer(trs) ==
    [k \in 1..Len(trs) |-> <<build_layers(trs[k], <<>>, 0)[1]>>]

\* layer_collection: build_layers(tree, [], 0) for every tree.
layers_of(trs) == [k \in 1..Len(trs) |-> build_layers(trs[k], <<>>, 0)]

\* The locals of resolve_tree as one value.
Rt == [visited |-> visited, trees |-> trees, orphan_nodes |-> orphan_nodes]

\* The while loop can neither exit nor change anything: it runs forever.
Diverges(st, rt) ==
    /\ Cardinality(rt.visited) # Len(st.nodes)
    /\ \A order \in SetOrders(Remainings(st, rt.visited)) :
           resolve_iteration(st, rt, order) = rt

\* Every result resolve_tree can return on st, over all set iteration orders.
RECURSIVE resolve_runs(_, _)
resolve_runs(st, rt) ==
    IF Cardinality(rt.visited) = Len(st.nodes)
    THEN {[layer_collection |-> layers_of(rt.trees), orphan_nodes |-> rt.orphan_nodes]}
    ELSE IF Diverges(st, rt)
    THEN {}
    ELSE UNION {resolve_runs(st, resolve_iteration(st, rt, order)) :
                    order \in SetOrders(Remainings(st, rt.visited))}

resolve_tree(st) == resolve_runs(st, [visited |-> {}, trees |-> <<>>, orphan_nodes |-> <<>>])

\* ---------------------------------------------------------- serialization
\* str(node.uuid) and UUID(text): the text form of a uuid and the uuid it names.
uuid_str(n) == <<"uuid", n>>
UUID(text) == text[2]

\* ReferenceInfo.to_dict / ReferenceInfo.from_dict
ReferenceInfo_to_dict(info) == [ref_start |-> info.ref_start, ref_stop |-> info.ref_stop]
ReferenceInfo_from_dict(data) == ReferenceInfo(data.ref_start, data.ref_stop)

\* Node.to_dict: the snippet is represented by its number of lines.
Node_to_dict(st, n) ==
    [uuid |-> uuid_str(n),
     snippet |-> [n_lines |-> n_lines(n)],
     roots |-> [i \in 1..Len(st.roots[n]) |-> uuid_str(st.roots[n][i])],
     leaves |-> [i \in 1..Len(st.leaves[n]) |-> uuid_str(st.leaves[n][i])],
     ref_infos |-> [k \in {uuid_str(r) : r \in DOMAIN st.ref_infos[n]} |->
                       ReferenceInfo_to_dict(st.ref_infos[n][UUID(k)])]]

\* NodeCollection.to_dict
to_dict(st) == [nodes |-> [i \in 1..Len(st.nodes) |-> Node_to_dict(st, st.nodes[i])]]

\* The node of data['nodes'] with the given uuid text: data_dict[uuid].
DataOf(data, text) ==
    data.nodes[CHOOSE i \in 1..Len(data.nodes) : data.nodes[i].uuid = text]

HasNode(data, text) == \E i \in 1..Len(data.nodes) : data.nodes[i].uuid = text

\* The loops of from_dict: node i of the document, leaf j of its leaves. The
\* nodes were rebuilt detached; every recorded leaf edge is replayed by add_leaf.
\* A key the document lacks raises KeyError where it is read.
RECURSIVE from_dict_loop(_, _, _, _)
from_dict_loop(data, st, i, j) ==
    IF i > Len(data.nodes)
    THEN Ok(st)
    ELSE IF "leaves" \notin DOMAIN data.nodes[i]
    THEN Raise(st, "KeyError")
    ELSE IF j > Len(data.nodes[i].leaves)
    THEN from_dict_loop(data, st, i + 1, 1)
    ELSE LET node_uuid == data.nodes[i].uuid
             leaf_uuid == data.nodes[i].leaves[j]
         IN  IF ~HasNode(data, leaf_uuid)
             THEN Raise(st, "KeyError")
             ELSE IF "ref_infos" \notin DOMAIN DataOf(data, leaf_uuid)
             THEN Raise(st, "KeyError")
             ELSE IF node_uuid \notin DOMAIN DataOf(data, leaf_uuid).ref_infos
             THEN Raise(st, "KeyError")
             ELSE LET ref_info == ReferenceInfo_from_dict(
                                      DataOf(data, leaf_uuid).ref_infos[node_uuid])
                      r == add_leaf(st, UUID(node_uuid), UUID(leaf_uuid),
                                    ref_info.ref_start, ref_info.ref_stop)
                  IN  IF r.err # "ok" THEN r ELSE from_dict_loop(data, r.st, i, j + 1)

\* No collection: what a failed from_dict leaves its caller with.
NoCollection ==
    [nodes |-> <<>>, roots |-> [n \in Node |-> <<>>], leaves |-> [n \in Node |-> <<>>],
     ref_infos |-> [n \in Node |-> EmptyDict]]

\* NodeCollection.from_dict(data): the collection of the rebuilt nodes. The
\* 'nodes' key is checked first; data_dict reads every node's 'uuid' and
\* nodes_dict every node's 'snippet' before any edge is replayed.
from_dict(data) ==
    IF "nodes" \notin DOMAIN data
    THEN Raise(NoCollection, "ValueError")
    ELSE IF \E i \in 1..Len(data.nodes) : "uuid" \notin DOMAIN data.nodes[i]
    THEN Raise(NoCollection, "KeyError")
    ELSE IF \E i \in 1..Len(data.nodes) : "snippet" \notin DOMAIN data.nodes[i]
    THEN Raise(NoCollection, "KeyError")
    ELSE from_dict_loop(data,
             [nodes |-> [i \in 1..Len(data.nodes) |-> UUID(data.nodes[i].uuid)],
              roots |-> [n \in Node |-> <<>>],
              leaves |-> [n \in Node |-> <<>>],
              ref_infos |-> [n \in Node |-> EmptyDict]],
             1, 1)

\* A file on disk: text that json.load rejects, or the document it parses to.
File(content) == [malformed |-> FALSE, content |-> content]
MalformedFile == [malformed |-> TRUE, content |-> EmptyDict]

\* NodeCollection.load(fn): json.JSONDecodeError and KeyError are re-raised as
\* FileLoadingException, any other exception passes.
load(file) ==
    IF file.malformed
    THEN Raise(NoCollection, "FileLoadingException")
    ELSE LET r == from_dict(file.content) IN
         IF r.err = "KeyError"
         THEN Raise(NoCollection, "FileLoadingException")
         ELSE IF r.err # "ok"
         THEN Raise(NoCollection, r.err)
         ELSE r

\* A record without key k.
DropKey(rec, k) == [x \in (DOMAIN rec) \ {k} |-> rec[x]]

\* The documents a file can hold besides the saved collection: the saved
\* document with one key dropped from node i, with node i's ref_infos emptied,
\* with root r entered in node i's roots and ref_infos only, with node i's
\* roots emptied, and a document without 'nodes'.
Damages ==
    {<<"saved", 0, 0>>, <<"malformed", 0, 0>>, <<"no nodes", 0, 0>>}
    \cup {<<d, i, 0>> : d \in {"no uuid", "no snippet", "no leaves", "no ref_infos",
                                "no ref_info entry", "no roots"}, i \in Node}
    \cup {<<"extra root", i, r>> : i \in Node, r \in Node}

Damaged(doc, dmg) ==
    LET d == dmg[1]
        i == dmg[2]
        OnNode(f(_)) == [doc EXCEPT !.nodes = [k \in 1..Len(doc.nodes) |->
                            IF k = i THEN f(doc.nodes[k]) ELSE doc.nodes[k]]]
    IN  CASE d = "saved" -> File(doc)
          [] d = "malformed" -> MalformedFile
          [] d = "no nodes" -> File(DropKey(doc, "nodes"))
          [] d = "no uuid" -> File(OnNode(LAMBDA n : DropKey(n, "uuid")))
          [] d = "no snippet" -> File(OnNode(LAMBDA n : DropKey(n, "snippet")))
          [] d = "no leaves" -> File(OnNode(LAMBDA n : DropKey(n, "leaves")))
          [] d = "no ref_infos" -> File(OnNode(LAMBDA n : DropKey(n, "ref_infos")))
          [] d = "no ref_info entry" ->
                 File(OnNode(LAMBDA n : [n EXCEPT !.ref_infos = EmptyDict]))
          [] d = "no roots" -> File(OnNode(LAMBDA n : [n EXCEPT !.roots = <<>>]))
          [] d = "extra root" ->
                 File(OnNode(LAMBDA n :
                     [n EXCEPT !.roots = Append(@, uuid_str(dmg[3])),
                               !.ref_infos = DictSet(@, uuid_str(dmg[3]),
                                   ReferenceInfo_to_dict(ReferenceInfo(1, None)))]))

\* -------------------------------------------------------------- shortcuts
\* The shortcut names and the keys.
Shortcut == 1..NumShortcuts
Key == 1..NumKeys

\* The key_bindings a name is registered with: one key for the first NumKeys
\* names, a combination of two keys for the others.
key_bindings(name) ==
    IF name <= NumKeys
    THEN {name}
    ELSE {((name - 1) % NumKeys) + 1, (name % NumKeys) + 1}

\* ShortcutRegistry.__init__: registry holds the names in insertion order.
ShortcutRegistry ==
    [registry |-> <<>>,
     keys_down |-> {},
     triggered_shortcut |-> None,
     edge_triggered_shortcut |-> None,
     prev_edge_triggered_shortcut |-> None,
     positive_edge_triggered_registry |-> {},
     negative_edge_triggered_registry |-> {}]

\* self.register(name, key_bindings(name), edge_trigger), name not yet registered
register(self, name, edge_trigger) ==
    [self EXCEPT
       !.registry = Append(@, name),
       !.positive_edge_triggered_registry =
           IF edge_trigger = "positive" THEN @ \cup {name} ELSE @,
       !.negative_edge_triggered_registry =
           IF edge_trigger = "negative" THEN @ \cup {name} ELSE @]

\* self.is_pressed(name)
is_pressed(self, name) == key_bindings(name) \subseteq self.keys_down

\* The loop `for name in self.registry` of poll, at position i: the registry
\* and the candidates it leaves.
RECURSIVE poll_loop(_, _, _)
poll_loop(self, i, candidates) ==
    IF i > Len(self.registry)
    THEN [self |-> self, candidates |-> candidates]
    ELSE LET name == self.registry[i] IN
         IF is_pressed(self, name)
         THEN IF name \in self.positive_edge_triggered_registry
              THEN IF self.prev_edge_triggered_shortcut = None
                   THEN poll_loop([self EXCEPT !.edge_triggered_shortcut = name],
                                  i + 1, Append(candidates, name))
                   ELSE poll_loop(self, i + 1, candidates)
              ELSE IF name \in self.negative_edge_triggered_registry
              THEN IF self.edge_triggered_shortcut = None
                   THEN poll_loop([self EXCEPT !.edge_triggered_shortcut = name],
                                  i + 1, candidates)
                   ELSE poll_loop(self, i + 1, candidates)
              ELSE poll_loop(self, i + 1, Append(candidates, name))
         ELSE LET s1 == IF name = self.prev_edge_triggered_shortcut
                        THEN [self EXCEPT !.prev_edge_triggered_shortcut = None]
                        ELSE self
              IN  IF name = s1.edge_triggered_shortcut
                  THEN poll_loop([s1 EXCEPT
                                    !.prev_edge_triggered_shortcut = s1.edge_triggered_shortcut,
                                    !.edge_triggered_shortcut = None],
                                 i + 1, Append(candidates, s1.edge_triggered_shortcut))
                  ELSE poll_loop(s1, i + 1, candidates)

\* max(range(len(candidates)), key=...): the first candidate with the most keys.
most_keys(candidates) ==
    LET n(i) == Cardinality(key_bindings(candidates[i]))
        idx == CHOOSE i \in 1..Len(candidates) :
                   /\ \A j \in 1..Len(candidates) : n(j) <= n(i)
                   /\ \A j \in 1..(i - 1) : n(j) < n(i)
    IN  candidates[idx]

\* self.poll()
poll(self) ==
    LET r == poll_loop(self, 1, <<>>) IN
    IF Len(r.candidates) >= 2
    THEN [r.self EXCEPT !.triggered_shortcut = most_keys(r.candidates)]
    ELSE IF Len(r.candidates) = 1
    THEN [r.self EXCEPT !.triggered_shortcut = r.candidates[1]]
    ELSE r.self

\* self.clear()
clear(self) ==
    IF self.triggered_shortcut \in self.positive_edge_triggered_registry
    THEN [self EXCEPT
            !.prev_edge_triggered_shortcut = self.triggered_shortcut,
            !.edge_triggered_shortcut = None,
            !.triggered_shortcut = None]
    ELSE [self EXCEPT !.triggered_shortcut = None]

\* ------------------------------------------------------------------ state
\* No link query was made on the present graph.
NoQuery == [op |-> "none", links |-> <<>>, err |-> "ok"]

\* No file was loaded.
NoLoad == [op |-> "none", file |-> MalformedFile, st |-> NoCollection, err |-> "ok"]

Init ==
    /\ nodes = [i \in 1..NumNodes |-> i]
    /\ roots = [n \in Node |-> <<>>]
    /\ leaves = [n \in Node |-> <<>>]
    /\ ref_infos = [n \in Node |-> EmptyDict]
    /\ last = [op |-> "init", a |-> 0, b |-> 0, err |-> "ok"]
    /\ steps = 0
    /\ pc = "idle"
    /\ visited = {}
    /\ trees = <<>>
    /\ orphan_nodes = <<>>
    /\ layer_collection = <<>>
    /\ query = NoQuery
    /\ loaded = NoLoad
    /\ returned = {}
    /\ shortcuts = ShortcutRegistry
    /\ hold = [phase |-> "poll", fired |-> {}]

ResolveIdle ==
    /\ pc' = "idle"
    /\ visited' = {}
    /\ trees' = <<>>
    /\ orphan_nodes' = <<>>
    /\ layer_collection' = <<>>

\* A call of a mutating operation with result r: the graph becomes r.st.
Call(op, a, b, r) ==
    /\ pc # "loop"
    /\ steps < MaxSteps
    /\ nodes' = r.st.nodes
    /\ roots' = r.st.roots
    /\ leaves' = r.st.leaves
    /\ ref_infos' = r.st.ref_infos
    /\ last' = [op |-> op, a |-> a, b |-> b, err |-> r.err]
    /\ steps' = steps + 1
    /\ ResolveIdle
    /\ query' = NoQuery
    /\ loaded' = NoLoad
    /\ returned' = (IF "ret" \in DOMAIN r THEN r.ret ELSE {})
    /\ UNCHANGED <<shortcuts, hold>>

NodeAddLeaf(self, node, ref_start, ref_stop) ==
    Call("add_leaf", self, node, add_leaf(St, self, node, ref_start, ref_stop))

NodeRemoveLeaf(self, node) ==
    Call("remove_leaf", self, node, remove_leaf(St, self, node))

AddLeafReference(root, target, ref_start, ref_stop) ==
    Call("add_leaf_reference", root, target,
         add_leaf_reference(St, root, target, ref_start, ref_stop))

RemoveRootReference(target, root) ==
    Call("remove_root_reference", target, root, remove_root_reference(St, target, root))

RemoveNode(target) ==
    Call("remove_node", target, 0, remove_node(St, target))

NodeRemoveAllLeaves(self) ==
    Call("remove_all_leaves", self, 0, remove_all_leaves(St, self))

RemoveNodeAndItsLeaves(target) ==
    Call("remove_node_and_its_leaves", target, 0, remove_node_and_its_leaves(St, target))

\* What the shortcut registry leaves alone.
not_shortcuts == <<nodes, roots, leaves, ref_infos, last, steps, pc, visited, trees,
                   orphan_nodes, layer_collection, query, loaded, returned>>

\* A shortcut is registered, between two frames.
Register(name, edge_trigger) ==
    /\ hold.phase = "poll"
    /\ ~InList(shortcuts.registry, name)
    /\ shortcuts' = register(shortcuts, name, edge_trigger)
    /\ UNCHANGED hold
    /\ UNCHANGED not_shortcuts

\* A frame begins: the io reports the keys that are down and poll() runs. A
\* shortcut that poll() makes triggered_shortcut while its keys are down has
\* fired in this hold; one whose keys are not all down is in no hold.
Poll(keys) ==
    /\ hold.phase = "poll"
    /\ shortcuts' = poll([shortcuts EXCEPT !.keys_down = keys])
    /\ hold' = [phase |-> "clear",
                fired |-> {n \in Elems(shortcuts.registry) :
                             /\ is_pressed(shortcuts', n)
                             /\ n \in hold.fired \/ shortcuts'.triggered_shortcut = n}]
    /\ UNCHANGED not_shortcuts

\* The frame ends: clear() runs.
Clear ==
    /\ hold.phase = "clear"
    /\ shortcuts' = clear(shortcuts)
    /\ hold' = [hold EXCEPT !.phase = "poll"]
    /\ UNCHANGED not_shortcuts

\* resolve_tree is called: its locals are initialised.
ResolveBegin ==
    /\ pc # "loop"
    /\ pc' = "loop"
    /\ visited' = {}
    /\ trees' = <<>>
    /\ orphan_nodes' = <<>>
    /\ layer_collection' = <<>>
    /\ last' = [op |-> "resolve_tree", a |-> 0, b |-> 0, err |-> "ok"]
    /\ query' = NoQuery
    /\ UNCHANGED <<nodes, roots, leaves, ref_infos, steps>>
    /\ UNCHANGED outside

\* One iteration of the while loop.
ResolveLoop ==
    /\ pc = "loop"
    /\ Cardinality(visited) # Len(nodes)
    /\ \E order \in SetOrders(Remainings(St, visited)) :
           LET rt == resolve_iteration(St, Rt, order) IN
           /\ visited' = rt.visited
           /\ trees' = rt.trees
           /\ orphan_nodes' = rt.orphan_nodes
    /\ UNCHANGED <<nodes, roots, leaves, ref_infos, last, steps, pc, layer_collection,
                   query>>
    /\ UNCHANGED outside

\* The loop exits, the layers are built and returned.
ResolveReturn ==
    /\ pc = "loop"
    /\ Cardinality(visited) = Len(nodes)
    /\ layer_collection' = layers_of(trees)
    /\ pc' = "done"
    /\ UNCHANGED <<nodes, roots, leaves, ref_infos, last, steps, visited, trees,
                   orphan_nodes, query>>
    /\ UNCHANGED outside

\* A link query with result r is made; it changes nothing else.
Query(op, r) ==
    /\ query' = [op |-> op, links |-> r.links, err |-> r.err]
    /\ UNCHANGED <<nodes, roots, leaves, ref_infos, last, steps, pc, visited, trees,
                   orphan_nodes, layer_collection>>
    /\ UNCHANGED outside

\* The collection is saved, the file is damaged or not, and load reads it.
Load(dmg) ==
    /\ pc # "loop"
    /\ LET file == Damaged(to_dict(St), dmg)
           r == load(file)
       IN  loaded' = [op |-> "load", file |-> file, st |-> r.st, err |-> r.err]
    /\ UNCHANGED <<nodes, roots, leaves, ref_infos, last, steps, pc, visited, trees,
                   orphan_nodes, layer_collection, query, returned, shortcuts, hold>>

ResolveLinks ==
    /\ pc # "loop"
    /\ Query("resolve_links", resolve_links(St))

\* The trees passed are those resolve_tree has just returned.
ResolveLinksFromTrees ==
    /\ pc = "done"
    /\ Query("resolve_links_from_trees", resolve_links_from_trees(St, layer_collection))

ResolveIndexLinksFromTrees ==
    /\ pc = "done"
    /\ Query("resolve_index_links_from_trees",
             resolve_index_links_from_trees(St, layer_collection))

Next ==
    \/ \E a, b \in Node, r \in RefArgs : NodeAddLeaf(a, b, r[1], r[2])
    \/ \E a, b \in Node : NodeRemoveLeaf(a, b)
    \/ \E a, b \in Node, r \in RefArgs : AddLeafReference(a, b, r[1], r[2])
    \/ \E a, b \in Node : RemoveRootReference(a, b)
    \/ \E a \in Node : RemoveNode(a)
    \/ ResolveBegin
    \/ ResolveLoop
    \/ ResolveReturn

Spec == Init /\ [][Next]_vars

\* The collection's own operations, called with members of the collection only.
Members == Elems(nodes)

NextColl ==
    \/ \E a, b \in Members, r \in RefArgs : AddLeafReference(a, b, r[1], r[2])
    \/ \E a, b \in Members : RemoveRootReference(a, b)
    \/ \E a \in Members : RemoveNode(a)
    \/ ResolveBegin
    \/ ResolveLoop
    \/ ResolveReturn

SpecColl == Init /\ [][NextColl]_vars

\* The collection's operations and its link queries.
NextLinks ==
    \/ \E a, b \in Members, r \in RefArgs : AddLeafReference(a, b, r[1], r[2])
    \/ \E a, b \in Members : RemoveRootReference(a, b)
    \/ \E a \in Members : RemoveNode(a)
    \/ ResolveBegin
    \/ ResolveLoop
    \/ ResolveReturn
    \/ ResolveLinks
    \/ ResolveLinksFromTrees
    \/ ResolveIndexLinksFromTrees

SpecLinks == Init /\ [][NextLinks]_vars

\* Edge creation with the default reference, and every removal.
NextRemoval ==
    \/ \E a, b \in Node : NodeAddLeaf(a, b, 1, None)
    \/ \E a \in Node : NodeRemoveAllLeaves(a)
    \/ \E a \in Node : RemoveNode(a)
    \/ \E a \in Node : RemoveNodeAndItsLeaves(a)

SpecRemoval == Init /\ [][NextRemoval]_vars

\* Short sequences of edge creations, and loads of the saved collection.
NextLoad ==
    \/ \E a, b \in Members, r \in RefArgs :
           steps < MaxRefSteps /\ AddLeafReference(a, b, r[1], r[2])
    \/ \E dmg \in Damages : Load(dmg)

SpecLoad == Init /\ [][NextLoad]_vars

\* Short call sequences in which add_leaf takes every combination of ref_start
\* and ref_stop.
NextRef ==
    \/ \E a, b \in Node, r \in RefArgsWide :
           steps < MaxRefSteps /\ NodeAddLeaf(a, b, r[1], r[2])
    \/ \E a, b \in Node : steps < MaxRefSteps /\ NodeRemoveLeaf(a, b)
    \/ \E a, b \in Node : steps < MaxRefSteps /\ RemoveRootReference(a, b)
    \/ \E a \in Node : steps < MaxRefSteps /\ RemoveNode(a)

SpecRef == Init /\ [][NextRef]_vars

\* References to the first line alone, to the last line of the longest
\* snippet with that line as stop, with a stop of 0, and to line 0.
RefArgsEdge == {<<1, None>>, <<MaxLines, MaxLines>>, <<1, 0>>, <<0, None>>}

\* Edge creation by both operations.
NextAdd ==
    \/ \E a, b \in Node, r \in RefArgsEdge :
           steps < MaxRefSteps /\ NodeAddLeaf(a, b, r[1], r[2])
    \/ \E a, b \in Node, r \in RefArgsEdge :
           steps < MaxRefSteps /\ AddLeafReference(a, b, r[1], r[2])

SpecAdd == Init /\ [][NextAdd]_vars

\* Registrations and frames of the shortcut registry.
NextShortcuts ==
    \/ \E name \in Shortcut, e \in {"none", "positive", "negative"} : Register(name, e)
    \/ \E keys \in SUBSET Key : Poll(keys)
    \/ Clear

SpecShortcuts == Init /\ [][NextShortcuts]_vars

\* ================================================================= claims

\* All roots and leaves of members are members.
Closed(st) ==
    \A n \in Elems(st.nodes) :
        Elems(st.roots[n]) \cup Elems(st.leaves[n]) \subseteq Elems(st.nodes)

NoDuplicates(s) == \A i, j \in 1..Len(s) : s[i] = s[j] => i = j

\* C1: after any sequence of calls, failed or not, b is in a.leaves if and only
\* if a is in b.roots, for all node objects a and b (members or removed).
C1_SymmetricEdges ==
    \A a, b \in Node : InList(leaves[a], b) <=> InList(roots[b], a)

\* C1 witness: remove_node returned for a node with two roots, and the removed
\* node and the root it is still a leaf of name each other.
C1_Witness ==
    /\ last.op = "remove_node" /\ last.err = "ok"
    /\ \E a \in Node : InList(leaves[a], last.a) /\ InList(roots[last.a], a)

\* C3: after remove_node(target) returns, target is not in the node list, no
\* node has target among its leaves, and target.roots and target.ref_infos are
\* empty.
C3_RemoveNodePost ==
    (last.op = "remove_node" /\ last.err = "ok") =>
        /\ ~InList(nodes, last.a)
        /\ \A n \in Node : ~InList(leaves[n], last.a)
        /\ roots[last.a] = <<>>
        /\ DOMAIN ref_infos[last.a] = {}

\* C7: remove_node(target) raises NodeRemovalException when target is not a
\* member and when target.leaves is not empty, and changes nothing then.
C7_RemoveNodeGating ==
    [][\A t \in Node :
          (/\ last'.op = "remove_node" /\ last'.a = t
           /\ index(St, t) = -1 \/ Len(leaves[t]) # 0
           /\ RemoveNode(t)) =>
              (last'.err = "NodeRemovalException" /\ UNCHANGED graph)]_vars

\* C7 witness: remove_node was refused for a node whose only leaf is itself.
C7_Witness ==
    /\ last.op = "remove_node" /\ last.err = "NodeRemovalException"
    /\ InList(nodes, last.a)
    /\ leaves[last.a] = <<last.a>>

\* C8: a call that raises leaves the node list and every node's roots, leaves
\* and ref_infos as they were.
C8_NoHalfUpdate ==
    [][last'.err # "ok" => UNCHANGED graph]_vars

\* C8 witness: add_leaf_reference passed the range checks and was refused as a
\* duplicate, the one raise that follows the first call into the leaf.
C8_Witness ==
    /\ last.op = "add_leaf_reference" /\ last.err = "NodeReferenceException"
    /\ InList(leaves[last.a], last.b)

\* C9: on a detached node A, A.add_leaf(A) returns with A.leaves = A.roots =
\* [A]; a second A.add_leaf(A) raises NodeReferenceException and leaves both
\* lists equal to [A].
C9_SelfReference ==
    [][\A a \in Node :
          /\ (/\ last'.op = "add_leaf" /\ last'.a = a /\ last'.b = a
              /\ roots[a] = <<>> /\ leaves[a] = <<>>
              /\ NodeAddLeaf(a, a, 1, None)) =>
                 (last'.err = "ok" /\ leaves'[a] = <<a>> /\ roots'[a] = <<a>>)
          /\ (/\ last'.op = "add_leaf" /\ last'.a = a /\ last'.b = a
              /\ roots[a] = <<a>> /\ leaves[a] = <<a>>
              /\ NodeAddLeaf(a, a, 1, None)) =>
                 (/\ last'.err = "NodeReferenceException"
                  /\ leaves'[a] = <<a>> /\ roots'[a] = <<a>>)]_vars

\* C9 witness: the second A.add_leaf(A) was refused.
C9_Witness ==
    /\ last.op = "add_leaf" /\ last.a = last.b
    /\ last.err = "NodeReferenceException"
    /\ leaves[last.a] = <<last.a>> /\ roots[last.a] = <<last.a>>

\* C10: no node's roots list holds an identity twice, and the keys of its
\* ref_infos are exactly the identities of its roots.
C10_PerRootBookkeeping ==
    \A n \in Node :
        /\ NoDuplicates(roots[n])
        /\ DOMAIN ref_infos[n] = Elems(roots[n])

\* C10 witness: remove_root_reference took one of a node's two roots; the
\* other root and its ReferenceInfo remain.
C10_Witness ==
    /\ last.op = "remove_root_reference" /\ last.err = "ok"
    /\ Len(roots[last.a]) = 1
    /\ DOMAIN ref_infos[last.a] = {roots[last.a][1]}

\* C2: from_dict(C.to_dict()).to_dict() equals C.to_dict() for every collection
\* whose edges run among its members.
C2_RoundTrip ==
    Closed(St) =>
        LET r == from_dict(to_dict(St)) IN
        r.err = "ok" /\ to_dict(r.st) = to_dict(St)

\* C4: resolve_tree terminates: its while loop is never in a state it can
\* neither leave nor change.
C4_ResolveTerminates ==
    pc = "loop" => ~Diverges(St, Rt)

\* The nodes of the returned layers, tree after tree and layer after layer.
RECURSIVE FlatLayers(_)
FlatLayers(lc) ==
    IF Len(lc) = 0 THEN <<>> ELSE Flatten(Head(lc)) \o FlatLayers(Tail(lc))

Count(s, x) == Cardinality({i \in 1..Len(s) : s[i] = x})

\* C5: on a collection whose edges run among its members, every member is once
\* in the layers of the trees and the orphans together, nothing else is, and
\* the orphans are the members without roots and leaves.
C5_Partition ==
    (pc = "done" /\ Closed(St)) =>
        LET all == FlatLayers(layer_collection) \o orphan_nodes IN
        /\ \A n \in Members : Count(all, n) = 1
        /\ Elems(all) \subseteq Members
        /\ Elems(orphan_nodes) =
               {n \in Members : Len(roots[n]) = 0 /\ Len(leaves[n]) = 0}

\* C5 witness: a result for a collection with a cycle, a node with two roots
\* and an orphan.
C5_Witness ==
    /\ pc = "done" /\ Closed(St)
    /\ \E n \in Members : Len(roots[n]) = 2 /\ InList(leaves[n], n)
    /\ Len(orphan_nodes) = 1

\* C6 as stated: the result is a function of the node list and the roots and
\* leaves lists: every evaluation on this state returns this one result.
C6_Deterministic ==
    pc = "done" =>
        resolve_tree(St) =
            {[layer_collection |-> layer_collection, orphan_nodes |-> orphan_nodes]}

\* The nodes reachable from n through leaves, n included.
RECURSIVE ReachFrom(_, _)
ReachFrom(st, S) ==
    LET T == S \cup UNION {Elems(st.leaves[n]) : n \in S} IN
    IF T = S THEN S ELSE ReachFrom(st, T)

\* Exactly one member has no roots and every member is reachable from it.
SingleRooted(st) ==
    /\ Closed(st)
    /\ \E r \in Elems(st.nodes) :
           /\ \A n \in Elems(st.nodes) : Len(st.roots[n]) = 0 <=> n = r
           /\ Elems(st.nodes) \subseteq ReachFrom(st, {r})

\* The run of resolve_tree in which every set yields its nodes in the order of
\* the node list.
RECURSIVE resolve_in_list_order(_, _)
resolve_in_list_order(st, rt) ==
    IF Cardinality(rt.visited) = Len(st.nodes)
    THEN [layer_collection |-> layers_of(rt.trees), orphan_nodes |-> rt.orphan_nodes]
    ELSE resolve_in_list_order(st,
             resolve_iteration(st, rt, SelectSeq(st.nodes, LAMBDA n : n \notin rt.visited)))

\* C6 amended: the result depends on the iteration order of the set of
\* unvisited nodes only so far: the nodes returned as orphans are the members
\* without roots and leaves, whatever that order; with all edges inside the
\* collection the nodes in trees are all other members; and when exactly one
\* member has no roots and every member is reachable from it, the whole result
\* is the one of the run that takes every set in node list order.
C6_DeterministicUpToOrder ==
    pc = "done" =>
        LET OrphanSet == {n \in Members : Len(roots[n]) = 0 /\ Len(leaves[n]) = 0} IN
        /\ Elems(orphan_nodes) = OrphanSet
        /\ Closed(St) => Elems(FlatLayers(layer_collection)) = Members \ OrphanSet
        /\ SingleRooted(St) =>
               [layer_collection |-> layer_collection, orphan_nodes |-> orphan_nodes]
                   = resolve_in_list_order(St,
                         [visited |-> {}, trees |-> <<>>, orphan_nodes |-> <<>>])

\* C6 witness: a result for a collection with one node without roots, from
\* which a cycle through the other members hangs.
C6_Witness ==
    /\ pc = "done" /\ SingleRooted(St)
    /\ Len(nodes) = NumNodes
    /\ \E n \in Members : Len(roots[n]) = 2
    /\ Len(layer_collection) = 1

\* C11: every ReferenceInfo stored in leaf.ref_infos under root r has
\* 1 <= ref_start <= n_lines(r), and its ref_stop is unset or <= n_lines(r).
C11_ReferenceRange ==
    \A leaf \in Node : \A r \in DOMAIN ref_infos[leaf] :
        LET info == ref_infos[leaf][r] IN
        /\ info.ref_start # None
        /\ 1 <= info.ref_start /\ info.ref_start <= n_lines(r)
        /\ info.ref_stop = None \/ info.ref_stop <= n_lines(r)

\* C11 witness: a leaf with a shorter snippet than its root holds a reference
\* to the root's last line, with ref_stop set to that line too.
C11_Witness ==
    \E leaf \in Node : \E r \in DOMAIN ref_infos[leaf] :
        /\ n_lines(leaf) < n_lines(r)
        /\ ref_infos[leaf][r].ref_start = n_lines(r)
        /\ ref_infos[leaf][r].ref_stop = n_lines(r)

\* C12 as stated: A.add_leaf(B, ref_start) is rejected for ref_start = 0 and
\* ref_start = n_lines(B) + 1 and succeeds for ref_start = 1 and
\* ref_start = n_lines(B), with n_lines(B) the line count of the leaf.
C12_LeafRange ==
    [][\A a, b \in Node :
          (last'.op = "add_leaf" /\ last'.a = a /\ last'.b = b) =>
              /\ NodeAddLeaf(a, b, 0, None) => last'.err # "ok"
              /\ NodeAddLeaf(a, b, n_lines(b) + 1, None) => last'.err # "ok"
              /\ (~InList(roots[b], a) /\ NodeAddLeaf(a, b, 1, None)) => last'.err = "ok"
              /\ (~InList(roots[b], a) /\ NodeAddLeaf(a, b, n_lines(b), None)) =>
                     last'.err = "ok"]_vars

\* C12 amended: the limits are those of the root A's snippet: A.add_leaf(B,
\* ref_start) raises ValueError and changes nothing for ref_start = 0 and
\* ref_start = n_lines(A) + 1, and, A not yet being a root of B, succeeds for
\* ref_start = 1 and ref_start = n_lines(A); B's line count plays no part.
C12_RootRange ==
    [][\A a, b \in Node :
          (last'.op = "add_leaf" /\ last'.a = a /\ last'.b = b) =>
              /\ NodeAddLeaf(a, b, 0, None) =>
                     (last'.err = "ValueError" /\ UNCHANGED graph)
              /\ NodeAddLeaf(a, b, n_lines(a) + 1, None) =>
                     (last'.err = "ValueError" /\ UNCHANGED graph)
              /\ (~InList(roots[b], a) /\ NodeAddLeaf(a, b, 1, None)) =>
                     (last'.err = "ok" /\ ref_infos'[b][a] = ReferenceInfo(1, None))
              /\ (~InList(roots[b], a) /\ NodeAddLeaf(a, b, n_lines(a), None)) =>
                     (/\ last'.err = "ok"
                      /\ ref_infos'[b][a] = ReferenceInfo(n_lines(a), None))]_vars

\* C12 witness: a root referred a leaf with a shorter snippet to a line past
\* the leaf's last line.
C12_Witness ==
    /\ last.op = "add_leaf" /\ last.err = "ok"
    /\ n_lines(last.b) < n_lines(last.a)
    /\ ref_infos[last.b][last.a] = ReferenceInfo(n_lines(last.a), None)

\* C13: every call of add_leaf_reference that fails raises
\* NodeReferenceException.
C13_SingleExceptionType ==
    last.op = "add_leaf_reference" => last.err \in {"ok", "NodeReferenceException"}

\* C14: remove_leaf(leaf) with leaf not in self.leaves raises
\* NodeRemovalException and changes nothing.
C14_NotALeaf ==
    [][\A a, b \in Node :
          (/\ last'.op = "remove_leaf" /\ last'.a = a /\ last'.b = b
           /\ ~InList(leaves[a], b)
           /\ NodeRemoveLeaf(a, b)) =>
              (last'.err = "NodeRemovalException" /\ UNCHANGED graph)]_vars

\* The list s without x, the other elements in their order.
Without(s, x) == SelectSeq(s, LAMBDA y : y # x)

\* C15: remove_root_reference(target, root) raises NodeRemovalException and
\* changes nothing when target.roots is empty or does not hold root; otherwise
\* it returns, root is gone from target.roots, target from root.leaves and
\* root's entry from target.ref_infos, and every other list, entry and the
\* node list are as before, in the same order.
C15_RemoveRootReference ==
    [][\A t, r \in Node :
          (/\ last'.op = "remove_root_reference" /\ last'.a = t /\ last'.b = r
           /\ RemoveRootReference(t, r)) =>
              IF Len(roots[t]) = 0 \/ ~InList(roots[t], r)
              THEN last'.err = "NodeRemovalException" /\ UNCHANGED graph
              ELSE /\ last'.err = "ok"
                   /\ roots' = [roots EXCEPT ![t] = Without(@, r)]
                   /\ leaves' = [leaves EXCEPT ![r] = Without(@, t)]
                   /\ ref_infos' = [ref_infos EXCEPT ![t] = DictPop(@, r)]
                   /\ nodes' = nodes]_vars

\* C15 witness: one of a node's two roots was removed; the node is still a
\* leaf of the other root and no longer one of the removed root.
C15_Witness ==
    /\ last.op = "remove_root_reference" /\ last.err = "ok"
    /\ Len(roots[last.a]) = 1
    /\ InList(leaves[roots[last.a][1]], last.a)
    /\ leaves[last.b] = <<>>

\* The directed edges (root, leaf) whose root is a member of the collection.
Edges == {e \in Node \X Node : e[1] \in Members /\ InList(leaves[e[1]], e[2])}

\* C16: resolve_links returns one link for every edge (root, leaf) with root a
\* member and nothing else; the link's root_slot is the index of root in
\* leaf.roots and its leaf_slot the index of leaf in root.leaves. A self-loop
\* that is A's only edge gives the link (A, 0, A, 0).
C16_ResolveLinks ==
    query.op = "resolve_links" =>
        /\ query.err = "ok"
        /\ Len(query.links) = Cardinality(Edges)
        /\ Elems(query.links) =
               {NodeLink(e[1], ListIndex(roots[e[2]], e[1]),
                         e[2], ListIndex(leaves[e[1]], e[2])) : e \in Edges}
        /\ \A a \in Members :
               (leaves[a] = <<a>> /\ roots[a] = <<a>>) =>
                   InList(query.links, NodeLink(a, 0, a, 0))

\* C16 witness: resolve_links returned two links into one node, with root_slot
\* 0 and 1.
C16_Witness ==
    /\ query.op = "resolve_links" /\ query.err = "ok"
    /\ \E i, j \in 1..Len(query.links) :
           /\ query.links[i].leaf = query.links[j].leaf
           /\ query.links[i].root_slot = 0
           /\ query.links[j].root_slot = 1

\* The members that are not orphans form one cycle: each has one root and one
\* leaf, and each is reached from every other.
PureCycle(st) ==
    LET cyc == {n \in Elems(st.nodes) : Len(st.roots[n]) # 0 \/ Len(st.leaves[n]) # 0} IN
    /\ Closed(st)
    /\ cyc # {}
    /\ \A n \in cyc : Len(st.roots[n]) = 1 /\ Len(st.leaves[n]) = 1
    /\ \A n \in cyc : ReachFrom(st, {n}) = cyc

\* C17: when the members that are not orphans form a pure cycle of k nodes,
\* resolve_tree returns one tree of k layers with one node each, and no node
\* of the cycle among the orphans.
C17_PureCycle ==
    (pc = "done" /\ PureCycle(St)) =>
        LET cyc == {n \in Members : Len(roots[n]) # 0} IN
        /\ Len(layer_collection) = 1
        /\ Len(layer_collection[1]) = Cardinality(cyc)
        /\ \A k \in 1..Len(layer_collection[1]) : Len(layer_collection[1][k]) = 1
        /\ Elems(orphan_nodes) \cap cyc = {}

\* The nodes at distance k from r along leaves.
RECURSIVE Level(_, _, _)
Level(st, r, k) ==
    IF k = 0 THEN {r} ELSE UNION {Elems(st.leaves[n]) : n \in Level(st, r, k - 1)}

\* Every member has at most one root, all edges run among members, and no
\* member reaches itself.
Forest(st) ==
    /\ Closed(st)
    /\ \A n \in Elems(st.nodes) : Len(st.roots[n]) <= 1
    /\ \A n \in Elems(st.nodes) :
           n \notin ReachFrom(st, Elems(st.leaves[n]))

\* C18: on a forest resolve_tree returns one tree for every member without
\* roots that has leaves; layer k of the tree is the set of nodes at distance
\* k from that member, down to the deepest; the orphans are the isolated
\* members.
C18_Forest ==
    (pc = "done" /\ Forest(St)) =>
        LET TreeRoots == {n \in Members : Len(roots[n]) = 0 /\ Len(leaves[n]) # 0} IN
        /\ Len(layer_collection) = Cardinality(TreeRoots)
        /\ \A r \in TreeRoots : \E t \in 1..Len(layer_collection) :
               LET tree == layer_collection[t] IN
               /\ tree[1] = <<r>>
               /\ \A k \in 1..Len(tree) :
                      /\ tree[k] # <<>>
                      /\ NoDuplicates(tree[k])
                      /\ Elems(tree[k]) = Level(St, r, k - 1)
               /\ Level(St, r, Len(tree)) = {}
        /\ NoDuplicates(orphan_nodes)
        /\ Elems(orphan_nodes) =
               {n \in Members : Len(roots[n]) = 0 /\ Len(leaves[n]) = 0}

\* C18 witness: a result for a forest whose tree has two nodes in its second
\* layer.
C18_Witness ==
    /\ pc = "done" /\ Forest(St)
    /\ \E t \in 1..Len(layer_collection) :
           Len(layer_collection[t]) = 2 /\ Len(layer_collection[t][2]) = 2

\* C19: on a collection whose edges run among its members,
\* resolve_links_from_trees on the trees resolve_tree returned gives the links
\* of resolve_links: the same set and the same number.
C19_LinksFromTrees ==
    (query.op = "resolve_links_from_trees" /\ Closed(St)) =>
        /\ query.err = "ok"
        /\ resolve_links(St).err = "ok"
        /\ Elems(query.links) = Elems(resolve_links(St).links)
        /\ Len(query.links) = Len(resolve_links(St).links)

\* C19 witness: the query returned links of two trees, one of them into a node
\* with two roots.
C19_Witness ==
    /\ query.op = "resolve_links_from_trees" /\ query.err = "ok" /\ Closed(St)
    /\ Len(layer_collection) = 2
    /\ \E i \in 1..Len(query.links) : query.links[i].root_slot = 1

\* C20: resolve_index_links_from_trees returns, and with F the concatenation
\* of all layers of all trees, the pairs (F[root_idx], F[leaf_idx]) of its
\* links are the edges (root, leaf) of the collection.
C20_IndexLinksFromTrees ==
    query.op = "resolve_index_links_from_trees" =>
        LET F == FlatLayers(layer_collection) IN
        /\ query.err = "ok"
        /\ \A i \in 1..Len(query.links) :
               /\ query.links[i].root_idx + 1 \in 1..Len(F)
               /\ query.links[i].leaf_idx + 1 \in 1..Len(F)
        /\ {<<F[query.links[i].root_idx + 1], F[query.links[i].leaf_idx + 1]>> :
                i \in 1..Len(query.links)} = Edges

\* The keys from_dict reads are all there.
WellKeyed(data) ==
    /\ "nodes" \in DOMAIN data
    /\ \A i \in 1..Len(data.nodes) :
           {"uuid", "snippet", "leaves"} \subseteq DOMAIN data.nodes[i]
    /\ \A i, k \in 1..Len(data.nodes) :
           InList(data.nodes[i].leaves, data.nodes[k].uuid) =>
               /\ "ref_infos" \in DOMAIN data.nodes[k]
               /\ data.nodes[i].uuid \in DOMAIN data.nodes[k].ref_infos

\* The recorded roots agree with the recorded leaves.
RootsMatchLeaves(data) ==
    \A i, k \in 1..Len(data.nodes) :
        InList(data.nodes[i].leaves, data.nodes[k].uuid)
            <=> InList(data.nodes[k].roots, data.nodes[i].uuid)

\* C21: from_dict checks the rebuilt nodes against the document: a document
\* whose recorded roots disagree with its recorded leaves is refused, and a
\* document that is loaded has every node's roots and leaves as recorded.
C21_IntegrityCheck ==
    (loaded.op = "load" /\ ~loaded.file.malformed /\ WellKeyed(loaded.file.content)) =>
        LET data == loaded.file.content IN
        /\ ~RootsMatchLeaves(data) => loaded.err # "ok"
        /\ loaded.err = "ok" =>
               \A i \in 1..Len(data.nodes) :
                   LET n == Node_to_dict(loaded.st, UUID(data.nodes[i].uuid)) IN
                   n.roots = data.nodes[i].roots /\ n.leaves = data.nodes[i].leaves

\* C22: load of a file that is not JSON, or whose document lacks 'nodes', a
\* node's 'uuid', 'snippet' or 'leaves', or a ref_infos entry an edge needs,
\* raises FileLoadingException.
C22_LoadErrors ==
    (/\ loaded.op = "load"
     /\ loaded.file.malformed \/ ~WellKeyed(loaded.file.content)) =>
        loaded.err = "FileLoadingException"

\* C24: remove_all_leaves() empties self.leaves, takes self out of the roots
\* and ref_infos of every former leaf, and changes no other edge and no other
\* ReferenceInfo; the node list stays.
C24_RemoveAllLeaves ==
    [][\A a \in Node :
          (/\ last'.op = "remove_all_leaves" /\ last'.a = a
           /\ NodeRemoveAllLeaves(a)) =>
              /\ last'.err = "ok"
              /\ leaves' = [leaves EXCEPT ![a] = <<>>]
              /\ roots' = [n \in Node |->
                     IF InList(leaves[a], n) THEN Without(roots[n], a) ELSE roots[n]]
              /\ ref_infos' = [n \in Node |->
                     IF InList(leaves[a], n) THEN DictPop(ref_infos[n], a)
                     ELSE ref_infos[n]]
              /\ nodes' = nodes]_vars

\* C24 witness: remove_all_leaves ran on a node and left it without leaves,
\* while an edge between two other nodes stands with its ReferenceInfo.
C24_Witness ==
    /\ last.op = "remove_all_leaves" /\ last.err = "ok"
    /\ leaves[last.a] = <<>>
    /\ \E b, c \in Node \ {last.a} :
           /\ roots[b] = <<c>> /\ leaves[c] = <<b>>
           /\ DOMAIN ref_infos[b] = {c}

\* C23: remove_node_and_its_leaves(target) on a member returns; the set it
\* returns is target with every node reached from it through leaves; none of
\* them is in the node list afterwards, and resolve_links then has no link
\* whose root or leaf is one of them.
C23_RemoveNodeAndItsLeaves ==
    [][\A t \in Node :
          (/\ last'.op = "remove_node_and_its_leaves" /\ last'.a = t
           /\ index(St, t) # -1
           /\ RemoveNodeAndItsLeaves(t)) =>
              LET after == [nodes |-> nodes', roots |-> roots', leaves |-> leaves',
                            ref_infos |-> ref_infos']
                  links == resolve_links(after)
              IN  /\ last'.err = "ok"
                  /\ returned' = ReachFrom(St, {t})
                  /\ Elems(nodes') = Elems(nodes) \ returned'
                  /\ links.err = "ok"
                  /\ \A i \in 1..Len(links.links) :
                         /\ links.links[i].root \notin returned'
                         /\ links.links[i].leaf \notin returned']_vars

\* C23 witness: a node on a cycle was removed together with the cycle, and a
\* surviving node that was a root of it has lost that leaf.
C23_Witness ==
    /\ last.op = "remove_node_and_its_leaves" /\ last.err = "ok"
    /\ Cardinality(returned) = 2
    /\ Len(nodes) = NumNodes - 2
    /\ \A n \in Node : leaves[n] = <<>> /\ roots[n] = <<>>

C26_StopRange ==
    \A leaf \in Node : \A r \in DOMAIN ref_infos[leaf] :
        ref_infos[leaf][r].ref_stop = None \/ ref_infos[leaf][r].ref_stop >= 1

\* C30: on a collection whose edges stay inside it, every node of layer k+1
\* of a tree is a leaf of a node of layer k of that tree, and a tree has no
\* more layers than nodes.
C30_LayersFollowEdges ==
    (pc = "done" /\ Closed(St)) =>
        \A t \in 1..Len(layer_collection) :
            LET tree == layer_collection[t] IN
            /\ \A k \in 1..(Len(tree) - 1) : \A i \in 1..Len(tree[k + 1]) :
                   \E j \in 1..Len(tree[k]) : InList(leaves[tree[k][j]], tree[k + 1][i])
            /\ Len(tree) <= Len(Flatten(tree))

\* The graph after root.add_leaf(target, ref_start, ref_stop) has succeeded,
\* as C27 states it.
EdgeAdded(root, target, ref_start, ref_stop) ==
    /\ roots' = [roots EXCEPT ![target] = Append(@, root)]
    /\ leaves' = [leaves EXCEPT ![root] = Append(@, target)]
    /\ ref_infos' = [ref_infos EXCEPT ![target] =
           DictSet(@, root, [ref_start |-> ref_start, ref_stop |-> ref_stop])]
    /\ nodes' = nodes

\* C27: when root.add_leaf(target, ref_start, ref_stop) or
\* add_leaf_reference(root, target, ref_start, ref_stop) succeeds, root is
\* appended to target.roots, target to root.leaves, target.ref_infos[root] is
\* (ref_start, ref_stop), and everything else of the graph is as before.
C27_EdgeCreation ==
    [][\A a, b \in Node : \A r \in RefArgsEdge :
          /\ (/\ last'.op = "add_leaf" /\ last'.err = "ok"
               /\ last'.a = a /\ last'.b = b
               /\ NodeAddLeaf(a, b, r[1], r[2])) => EdgeAdded(a, b, r[1], r[2])
          /\ (/\ last'.op = "add_leaf_reference" /\ last'.err = "ok"
               /\ last'.a = a /\ last'.b = b
               /\ AddLeafReference(a, b, r[1], r[2])) => EdgeAdded(a, b, r[1], r[2])]_vars

\* C27 witness: add_leaf_reference gave a node its second root, with a
\* reference from the root's last line to the same line.
C27_Witness ==
    /\ last.op = "add_leaf_reference" /\ last.err = "ok"
    /\ Len(roots[last.b]) = 2 /\ roots[last.b][2] = last.a
    /\ ref_infos[last.b][last.a] = [ref_start |-> MaxLines, ref_stop |-> MaxLines]

\* C29: when a.add_leaf(b, s, e) has succeeded, a.remove_leaf(b) and
\* remove_root_reference(b, a) both return, and each leaves every node's
\* roots, leaves and ref_infos, and the node list, as they were before the
\* add_leaf, in the same order.
C29_AddThenRemove ==
    [][(last'.op = "add_leaf" /\ last'.err = "ok") =>
          LET after == [nodes |-> nodes', roots |-> roots', leaves |-> leaves',
                        ref_infos |-> ref_infos']
          IN  /\ remove_leaf(after, last'.a, last'.b) = Ok(St)
              /\ remove_root_reference(after, last'.b, last'.a) = Ok(St)]_vars

\* C29 witness: add_leaf gave a node that had a root a second one, with a
\* stop line, so that the removal has to pick the right entry of roots and
\* ref_infos.
C29_Witness ==
    /\ last.op = "add_leaf" /\ last.err = "ok"
    /\ roots[last.b] = <<last.b, last.a>>
    /\ ref_infos[last.b][last.a].ref_stop = MaxLines

\* C28: a shortcut registered with edge_trigger = 'positive' whose keys are
\* down at a poll() and that has been triggered since its keys were last seen
\* up is not made triggered_shortcut by that poll().
C28_NoRepeat ==
    [][\A n \in Shortcut :
          (/\ hold.phase = "poll" /\ hold'.phase = "clear"
           /\ n \in shortcuts.positive_edge_triggered_registry
           /\ is_pressed(shortcuts', n)
           /\ n \in hold.fired) =>
              shortcuts'.triggered_shortcut # n]_vars

====
